---- MODULE Spec2Model ----
(***************************************************************************)
(* Keithley_2400_SM: a VISA driver for the Keithley 2400 SourceMeter.      *)
(*                                                                         *)
(* The driver object (last commanded current and voltage, the step sizes)  *)
(* and the instrument parameters it writes through Configurable are the    *)
(* state.  Every public method is one action; the Configurable calls a     *)
(* method makes are appended, in program order, to the log io, which is    *)
(* reset at the start of each call.                                        *)
(*                                                                         *)
(* Numbers.  A float x of the program is the integer x / 5e-7 * Scale: the *)
(* unit is half of the lower clamp 1e-6, and Scale is a multiple of every  *)
(* ramp length the model allows, so that the points of np.linspace are     *)
(* integers and the arithmetic is exact (float rounding is not modelled).  *)
(* The instrument is assumed to take the value of every parameter written  *)
(* to it; what it holds before the driver's first write is unknown.        *)
(***************************************************************************)
EXTENDS Integers, Sequences, FiniteSets, TLC

\* Longest ramp (np.linspace intervals) a call of the model may make.
MaxSteps == 4

RECURSIVE Gcd(_, _)
Gcd(a, b) == IF b = 0 THEN a ELSE Gcd(b, a % b)

RECURSIVE LcmUpTo(_)
LcmUpTo(n) == IF n <= 1 THEN 1 ELSE (LcmUpTo(n - 1) * n) \div Gcd(LcmUpTo(n - 1), n)

\* Number of model units in 5e-7.
Scale == LcmUpTo(MaxSteps)

\* The float x * 5e-7.
Num(x) == x * Scale

Abs(x) == IF x < 0 THEN -x ELSE x

\* Python's None, and a present optional value.
None == <<>>
Some(x) == <<x>>

\* np.clip bounds of _configCurrent: a_min=1e-6, a_max=1.
AMin == Num(2)
AMax == Num(2000000)

\* Constructor defaults: protectionVoltage=4, protectionCurrent=200E-3,
\* currStep=1.0E-3, voltStep=0.1; mode defaults protectionCurrent=0.05,
\* protectionVoltage=1.
DefaultProtectionVoltage == Num(8000000)
DefaultProtectionCurrent == Num(400000)
DefaultCurrStep == Num(2000)
DefaultVoltStep == Num(200000)
ModeProtectionCurrent == Num(100000)
ModeProtectionVoltage == Num(2000000)

----------------------------------------------------------------------------
(* Inputs of the calls. *)

\* Requested currents and voltages: zero, below, inside and above the clamp
\* range, of both signs.
Targets == {Num(-4000000), Num(-6), Num(0), Num(1), Num(2), Num(8), Num(16),
            Num(2000000), Num(4000000)}

\* currStep / voltStep keyword arguments of the constructor.
CurrSteps == {Some(Num(4)), Some(DefaultCurrStep), Some(Num(800000))}
VoltSteps == {Some(Num(6)), Some(DefaultVoltStep)}

Ports == {"Front", "Rear", "front"}
EnableArgs == {"None", "True", "False"}

\* How the stack returns OUTP:STATE from the hardware: the word, a number,
\* or the digit as a string.
Formats == {"word", "num", "str"}

\* Replies to MEASURE:...?: comma separated fields; a field is a number or
\* not numeric at all.
Field(x) == [numeric |-> TRUE, val |-> x]
BadField == [numeric |-> FALSE, val |-> 0]
Replies == {<<Field(Num(3000000)), Field(Num(40000))>>,
            <<Field(Num(8000000)), Field(Num(400000))>>,
            <<Field(Num(3000000))>>,
            <<BadField, BadField>>}

----------------------------------------------------------------------------
VARIABLES
    latestCurrentVal,   \* self._latestCurrentVal
    latestVoltageVal,   \* self._latestVoltageVal
    currStep,           \* self.currStep (None or Some(step))
    voltStep,           \* self.voltStep
    outpState,          \* instrument: OUTP:STATE is on
    outpFormat,         \* instrument/stack: the form OUTP:STATE is read in
    sourceFunc,         \* instrument: SOURCE:FUNC
    senseOn,            \* instrument: the sense functions that are on
    routTerm,           \* instrument: ROUT:TERM
    protV,              \* VOLT:PROT
    protC,              \* CURR:PROT
    op,                 \* the method called last
    arg,                \* its argument
    ret,                \* what it returned
    raised,             \* the exception it raised, or "none"
    io,                 \* the Configurable/VISA calls it made, in order
    modeSwitched        \* setCurrentMode or setVoltageMode has been called

vars == <<latestCurrentVal, latestVoltageVal, currStep, voltStep, outpState,
          outpFormat, sourceFunc, senseOn, routTerm, protV, protC, op, arg,
          ret, raised, io, modeSwitched>>

\* The driver and the instrument as one value, threaded through the calls
\* of a method.  val is the value the last getConfigParam returned, ret the
\* value the last enable returned.
Driver ==
    [cur |-> latestCurrentVal, volt |-> latestVoltageVal,
     currStep |-> currStep, voltStep |-> voltStep,
     outp |-> outpState, fmt |-> outpFormat, func |-> sourceFunc,
     sense |-> senseOn, term |-> routTerm, pv |-> protV, pc |-> protC,
     io |-> <<>>, val |-> "", ret |-> FALSE]

Log(d, e) == [d EXCEPT !.io = Append(@, e)]

----------------------------------------------------------------------------
(* Configurable, as the driver uses it. *)

\* OUTP:STATE as the hardware read returns it.
OutpRep(on, fmt) ==
    CASE fmt = "word" -> <<"str", IF on THEN "ON" ELSE "OFF">>
      [] fmt = "num"  -> <<"num", IF on THEN "1" ELSE "0">>
      [] fmt = "str"  -> <<"str", IF on THEN "1" ELSE "0">>

\* Record the value and write it to the hardware, which takes it.
setConfigParam(d, key, val) ==
    LET d1 == Log(d, [t |-> "set", k |-> key, v |-> val])
    IN  CASE key = "OUTP:STATE"             -> [d1 EXCEPT !.outp = (val = 1)]
          [] key = "SOURCE:FUNC"            -> [d1 EXCEPT !.func = val]
          [] key = "SENSE:FUNCTION:OFF:ALL" -> [d1 EXCEPT !.sense = {}]
          [] key = "SENSE:FUNCTION:ON"      -> [d1 EXCEPT !.sense = @ \cup {val.quoted}]
          [] key = "ROUT:TERM"              -> [d1 EXCEPT !.term = val]
          [] key = "VOLT:PROT"              -> [d1 EXCEPT !.pv = val]
          [] key = "CURR:PROT"              -> [d1 EXCEPT !.pc = val]
          [] OTHER                          -> d1

\* The value of a parameter, left in val; forceHardware reads the instrument.
getConfigParam(d, key, forceHardware) ==
    LET v == CASE key = "OUTP:STATE"  -> OutpRep(d.outp, d.fmt)
               [] key = "SOURCE:FUNC" -> d.func
               [] key = "VOLT:PROT"   -> d.pv
               [] key = "CURR:PROT"   -> d.pc
    IN  [Log(d, [t |-> IF forceHardware THEN "getHW" ELSE "get", k |-> key, v |-> v])
            EXCEPT !.val = v]

----------------------------------------------------------------------------
(* Keithley_2400_SM. *)

\* '"{}"'.format(meterStr)
Quoted(s) == [quoted |-> s]

setPort(d, port) ==
    IF port = "Front" THEN setConfigParam(d, "ROUT:TERM", "FRON")
    ELSE IF port = "Rear" THEN setConfigParam(d, "ROUT:TERM", "REAR")
    ELSE d

\* setSourceMode without SENSE:FUNCTION:OFF:ALL: the sense functions that
\* were on stay on.
setSourceMode_keepsSense(d, isCurrentSource) ==
    LET sourceStr == IF isCurrentSource THEN "CURR" ELSE "VOLT"
        meterStr  == IF isCurrentSource THEN "VOLT" ELSE "CURR"
        d1 == setConfigParam(d, "SOURCE:FUNC", sourceStr)
        d2 == setConfigParam(d1, IF isCurrentSource THEN "SOURCE:CURR:MODE"
                                 ELSE "SOURCE:VOLT:MODE", "FIXED")
        d4 == setConfigParam(d2, "SENSE:FUNCTION:ON", Quoted(meterStr))
        d5 == setConfigParam(d4, IF isCurrentSource THEN "SENSE:VOLT:RANGE:AUTO"
                                 ELSE "SENSE:CURR:RANGE:AUTO", "ON")
    IN  setConfigParam(d5, "RES:MODE", "MAN")

setSourceMode(d, isCurrentSource) ==
    LET sourceStr == IF isCurrentSource THEN "CURR" ELSE "VOLT"
        meterStr  == IF isCurrentSource THEN "VOLT" ELSE "CURR"
        d1 == setConfigParam(d, "SOURCE:FUNC", sourceStr)
        d2 == setConfigParam(d1, IF isCurrentSource THEN "SOURCE:CURR:MODE"
                                 ELSE "SOURCE:VOLT:MODE", "FIXED")
        d3 == setConfigParam(d2, "SENSE:FUNCTION:OFF:ALL", "")
        d4 == setConfigParam(d3, "SENSE:FUNCTION:ON", Quoted(meterStr))
        d5 == setConfigParam(d4, IF isCurrentSource THEN "SENSE:VOLT:RANGE:AUTO"
                                 ELSE "SENSE:CURR:RANGE:AUTO", "ON")
    IN  setConfigParam(d5, "RES:MODE", "MAN")

setProtectionVoltage(d, protectionVoltage) ==
    setConfigParam(d, "VOLT:PROT", protectionVoltage)

setProtectionCurrent(d, protectionCurrent) ==
    setConfigParam(d, "CURR:PROT", protectionCurrent)

\* np.clip(x, a_min, a_max)
clip(x, a_min, a_max) == IF x < a_min THEN a_min ELSE IF x > a_max THEN a_max ELSE x

\* 10 ** np.ceil(np.log10(x)) for x >= 1e-6: the smallest power of ten that
\* is at least x.  Every caller passes a clipped value, or none at all.
RECURSIVE DecadeFrom(_, _)
DecadeFrom(p, x) == IF p >= x THEN p ELSE DecadeFrom(10 * p, x)

needRange(x) == DecadeFrom(AMin, x)

configCurrent(d, currAmps) ==
    LET c  == clip(currAmps, AMin, AMax)
        d1 == IF c # 0 THEN setConfigParam(d, "SOURCE:CURR:RANGE", needRange(Abs(c)))
              ELSE d
        d2 == setConfigParam(d1, "SOURCE:CURR", c)
    IN  [d2 EXCEPT !.cur = c]

configVoltage(d, voltVolts) ==
    LET d1 == IF voltVolts # 0
              THEN setConfigParam(d, "SOURCE:VOLT:RANGE", needRange(Abs(voltVolts)))
              ELSE d
        d2 == setConfigParam(d1, "SOURCE:VOLT", voltVolts)
    IN  [d2 EXCEPT !.volt = voltVolts]

\* np.linspace(start, stop, num): num equally spaced points, the last one
\* stop itself; start alone when num = 1.
linspace(start, stop, num) ==
    [i \in 1..num |->
        IF i = 1 THEN start
        ELSE IF i = num THEN stop
        ELSE start + (i - 1) * ((stop - start) \div (num - 1))]

\* int(np.floor(abs(a - b) / step))
nStepsOf(a, b, step) == Abs(a - b) \div step

\* for x in points[from:]: self._configCurrent(x)
RECURSIVE configCurrentEach(_, _, _)
configCurrentEach(d, points, from) ==
    IF from > Len(points) THEN d
    ELSE configCurrentEach(configCurrent(d, points[from]), points, from + 1)

\* retVal in ['ON', 1]: the string '1' is not taken for on.
isOnValue_noDigitString(retVal) == retVal \in {<<"str", "ON">>, <<"num", "1">>}

\* retVal in ['ON', 1, '1']
isOnValue(retVal) == retVal \in {<<"str", "ON">>, <<"num", "1">>, <<"str", "1">>}

RECURSIVE enable(_, _)
RECURSIVE setCurrent(_, _)
RECURSIVE setVoltage(_, _)

setCurrent(d, currAmps) ==
    LET currTemp == d.cur
        e == enable(d, "None")
    IN  IF ~e.ret \/ e.currStep = None
        THEN configCurrent(e, currAmps)
        ELSE LET nSteps == nStepsOf(currTemp, currAmps, e.currStep[1])
             IN  configCurrentEach(e, linspace(currTemp, currAmps, 1 + nSteps), 2)

setVoltage(d, voltVolts) ==
    LET voltTemp == d.volt
        e == enable(d, "None")
    IN  IF ~e.ret \/ e.voltStep = None
        THEN configCurrent(e, voltVolts)
        ELSE LET nSteps == nStepsOf(voltTemp, voltVolts, e.voltStep[1])
             IN  configCurrentEach(e, linspace(voltTemp, voltVolts, 1 + nSteps), 2)

enable(d, newState) ==
    LET d1 == IF newState = "False"
              THEN IF getConfigParam(d, "SOURCE:FUNC", FALSE).val = "CURR"
                   THEN setCurrent(getConfigParam(d, "SOURCE:FUNC", FALSE), 0)
                   ELSE setVoltage(getConfigParam(d, "SOURCE:FUNC", FALSE), 0)
              ELSE d
        d2 == IF newState # "None"
              THEN setConfigParam(d1, "OUTP:STATE", IF newState = "True" THEN 1 ELSE 0)
              ELSE d1
        d3 == getConfigParam(d2, "OUTP:STATE", TRUE)
    IN  [d3 EXCEPT !.ret = isOnValue(d3.val)]

setVoltageMode(d, protectionCurrent) ==
    configVoltage(
        setProtectionCurrent(
            setSourceMode(enable(d, "False"), FALSE),
            protectionCurrent),
        0)

\* setCurrentMode that switches the source function before it disables the
\* output.
setCurrentMode_switchesFirst(d, protectionVoltage) ==
    configCurrent(
        setProtectionVoltage(
            enable(setSourceMode(d, TRUE), "False"),
            protectionVoltage),
        0)

setCurrentMode(d, protectionVoltage) ==
    configCurrent(
        setProtectionVoltage(
            setSourceMode(enable(d, "False"), TRUE),
            protectionVoltage),
        0)

\* float(retStr.split(',')[n]) of measVoltage (n = 0) and measCurrent (n = 1):
\* the exception raised, or "none".
parseError(reply, n) ==
    IF Len(reply) < n + 1 THEN "IndexError"
    ELSE IF ~reply[n + 1].numeric THEN "ValueError"
    ELSE "none"

measVoltage(d, reply) ==
    LET d1 == Log(d, [t |-> "query", k |-> "MEASURE:VOLT?", v |-> reply])
    IN  IF parseError(reply, 0) # "none" THEN d1
        ELSE LET d2 == getConfigParam(d1, "VOLT:PROT", FALSE)
             IN  IF reply[1].val >= d2.val
                 THEN Log(getConfigParam(d2, "VOLT:PROT", FALSE),
                          [t |-> "print", k |-> "Warning", v |-> reply[1].val])
                 ELSE d2

measCurrent(d, reply) ==
    LET d1 == Log(d, [t |-> "query", k |-> "MEASURE:CURR?", v |-> reply])
    IN  IF parseError(reply, 1) # "none" THEN d1
        ELSE LET d2 == getConfigParam(d1, "CURR:PROT", FALSE)
             IN  IF reply[2].val >= d2.val
                 THEN Log(getConfigParam(d2, "CURR:PROT", FALSE),
                          [t |-> "print", k |-> "Warning", v |-> reply[2].val])
                 ELSE d2

----------------------------------------------------------------------------
(* The state after construction, and one action per public method. *)

\* (currStep, voltStep) after __init__: the keyword arguments of
\* Keithley_2400_SM (both left at their defaults, or both given), or None
\* and None for Keithley_2400_SM_noRamp.
StepConfigs ==
    {c \in CurrSteps \X VoltSteps : (c[1] = Some(DefaultCurrStep)) = (c[2] = Some(DefaultVoltStep))}
        \cup {<<None, None>>}

\* __init__ writes the two protection limits; the instrument is in whatever
\* configuration it was left in.
Init ==
    /\ latestCurrentVal = 0
    /\ latestVoltageVal = 0
    /\ \E c \in StepConfigs : currStep = c[1] /\ voltStep = c[2]
    /\ outpState \in BOOLEAN
    /\ outpFormat \in Formats
    /\ sourceFunc \in {"CURR", "VOLT"}
    /\ senseOn \in SUBSET {"CURR", "VOLT"}
    /\ routTerm \in {"FRON", "REAR"}
    /\ protV = DefaultProtectionVoltage
    /\ protC = DefaultProtectionCurrent
    /\ op = IF currStep = None /\ voltStep = None
            THEN "Keithley_2400_SM_noRamp" ELSE "Keithley_2400_SM"
    /\ arg = "None"
    /\ ret = "None"
    /\ raised = "none"
    /\ io = << [t |-> "set", k |-> "VOLT:PROT", v |-> DefaultProtectionVoltage],
               [t |-> "set", k |-> "CURR:PROT", v |-> DefaultProtectionCurrent] >>
    /\ modeSwitched = FALSE

\* The state a call leaves: driver and instrument as d, the call's record.
Commit(d, method, a, r, exc) ==
    /\ latestCurrentVal' = d.cur
    /\ latestVoltageVal' = d.volt
    /\ currStep' = d.currStep
    /\ voltStep' = d.voltStep
    /\ outpState' = d.outp
    /\ outpFormat' = d.fmt
    /\ sourceFunc' = d.func
    /\ senseOn' = d.sense
    /\ routTerm' = d.term
    /\ protV' = d.pv
    /\ protC' = d.pc
    /\ op' = method
    /\ arg' = a
    /\ ret' = r
    /\ raised' = exc
    /\ io' = d.io

\* The np.linspace intervals a ramp from a to b would take now.
rampLen(a, b, step) ==
    IF ~outpState \/ step = None THEN 0 ELSE nStepsOf(a, b, step[1])

\* The same for the ramp to 0 that enable(False) makes.
rampDownLen ==
    IF sourceFunc = "CURR" THEN rampLen(latestCurrentVal, 0, currStep)
    ELSE rampLen(latestVoltageVal, 0, voltStep)

SetPort ==
    \E port \in Ports :
        /\ Commit(setPort(Driver, port), "setPort", port, "None", "none")
        /\ UNCHANGED modeSwitched

SetVoltageMode ==
    /\ rampDownLen <= MaxSteps
    /\ Commit(setVoltageMode(Driver, ModeProtectionCurrent), "setVoltageMode",
              ModeProtectionCurrent, "None", "none")
    /\ modeSwitched' = TRUE

SetCurrentMode ==
    /\ rampDownLen <= MaxSteps
    /\ Commit(setCurrentMode(Driver, ModeProtectionVoltage), "setCurrentMode",
              ModeProtectionVoltage, "None", "none")
    /\ modeSwitched' = TRUE

SetCurrent ==
    \E currAmps \in Targets :
        /\ rampLen(latestCurrentVal, currAmps, currStep) <= MaxSteps
        /\ Commit(setCurrent(Driver, currAmps), "setCurrent", currAmps, "None", "none")
        /\ UNCHANGED modeSwitched

SetVoltage ==
    \E voltVolts \in Targets :
        /\ rampLen(latestVoltageVal, voltVolts, voltStep) <= MaxSteps
        /\ Commit(setVoltage(Driver, voltVolts), "setVoltage", voltVolts, "None", "none")
        /\ UNCHANGED modeSwitched

MeasVoltage ==
    \E reply \in Replies :
        /\ Commit(measVoltage(Driver, reply), "measVoltage", reply,
                  IF parseError(reply, 0) = "none" THEN reply[1].val ELSE "None",
                  parseError(reply, 0))
        /\ UNCHANGED modeSwitched

MeasCurrent ==
    \E reply \in Replies :
        /\ Commit(measCurrent(Driver, reply), "measCurrent", reply,
                  IF parseError(reply, 1) = "none" THEN reply[2].val ELSE "None",
                  parseError(reply, 1))
        /\ UNCHANGED modeSwitched

Enable ==
    \E newState \in EnableArgs :
        /\ newState = "False" => rampDownLen <= MaxSteps
        /\ Commit(enable(Driver, newState), "enable", newState,
                  enable(Driver, newState).ret, "none")
        /\ UNCHANGED modeSwitched

Next ==
    \/ SetPort
    \/ SetVoltageMode
    \/ SetCurrentMode
    \/ SetCurrent
    \/ SetVoltage
    \/ MeasVoltage
    \/ MeasCurrent
    \/ Enable

Spec == Init /\ [][Next]_vars

----------------------------------------------------------------------------
(* What the last call wrote. *)

\* The values the call wrote to parameter key, in order.
WritesTo(key) ==
    LET w == SelectSeq(io, LAMBDA e : e.t = "set" /\ e.k = key)
    IN  [i \in 1..Len(w) |-> w[i].v]

CurrWrites == WritesTo("SOURCE:CURR")
VoltWrites == WritesTo("SOURCE:VOLT")

\* The call made no setConfigParam at all.
NoWrites == \A i \in 1..Len(io) : io[i].t # "set"

Last(w) == w[Len(w)]

Monotonic(w) ==
    \/ \A i \in 1..Len(w) - 1 : w[i] <= w[i + 1]
    \/ \A i \in 1..Len(w) - 1 : w[i] >= w[i + 1]

InRange(x) == AMin <= x /\ x <= AMax

\* io[i] writes val to key.
IsSet(i, key, val) == io[i].t = "set" /\ io[i].k = key /\ io[i].v = val

\* io[i] writes to key.
IsSetOf(i, key) == io[i].t = "set" /\ io[i].k = key

----------------------------------------------------------------------------
(* The claims. *)

\* C1: with the output enabled and a current step s > 0, setCurrent from the
\* last commanded current a to b (both in [1e-6, 1.0]) writes SOURCE:CURR
\* values of which each differs from its predecessor (a for the first) by no
\* more than s.
C1_StepsNoLargerThanStep ==
    [][ (/\ op' = "setCurrent"
         /\ outpState
         /\ currStep # None
         /\ InRange(latestCurrentVal)
         /\ InRange(arg'))
        => \A i \in 1..Len(CurrWrites') :
              Abs(CurrWrites'[i] - (IF i = 1 THEN latestCurrentVal ELSE CurrWrites'[i - 1]))
                  <= currStep[1] ]_vars

\* C2: the same ramp (the case |a - b| < s included) writes a monotonic
\* sequence that ends exactly at b, and leaves the last commanded current at b.
C2_RampEndsAtTarget ==
    [][ (/\ op' = "setCurrent"
         /\ outpState
         /\ currStep # None
         /\ InRange(latestCurrentVal)
         /\ InRange(arg'))
        => /\ Monotonic(CurrWrites')
           /\ Len(CurrWrites') > 0 => Last(CurrWrites') = arg'
           /\ latestCurrentVal' = arg' ]_vars

\* C3: a requested current t of either sign with |t| outside [1e-6, 1.0] is
\* written to SOURCE:CURR, and stored as last commanded current, with the
\* magnitude of the nearest bound: 1e-6 when |t| < 1e-6, 1.0 when |t| > 1.0.
C3_ClampsMagnitude ==
    (/\ op = "setCurrent"
     /\ ~InRange(Abs(arg))
     /\ Len(CurrWrites) > 0)
    => LET nearest == IF Abs(arg) < AMin THEN AMin ELSE AMax
       IN  /\ Abs(Last(CurrWrites)) = nearest
           /\ Abs(latestCurrentVal) = nearest

\* C4: with the step size None or the output disabled, a setpoint call with
\* target b makes exactly one write of its source-value parameter, of value b
\* (stated for the targets b in [1e-6, 1.0], which clamping leaves as they are).
C4_DirectJumpWritesTargetOnce ==
    /\ (op = "setCurrent" /\ InRange(arg) /\ (~outpState \/ currStep = None))
       => CurrWrites = <<arg>>
    /\ (op = "setVoltage" /\ InRange(arg) /\ (~outpState \/ voltStep = None))
       => VoltWrites = <<arg>>

\* C5: enable(False) in current-source mode writes the SOURCE:CURR values of
\* the ramp down before it writes OUTP:STATE 0, and the last SOURCE:CURR
\* value written before OUTP:STATE 0 is 0.
C5_RampsToZeroBeforeOff ==
    (op = "enable" /\ arg = "False" /\ sourceFunc = "CURR")
    => \E off \in 1..Len(io) :
          /\ IsSet(off, "OUTP:STATE", 0)
          /\ \A i \in 1..Len(io) : IsSetOf(i, "SOURCE:CURR") => i < off
          /\ Len(CurrWrites) > 0
          /\ Last(CurrWrites) = 0

\* C6: setVoltage writes SOURCE:VOLT and updates the last commanded voltage,
\* and neither writes SOURCE:CURR nor changes the last commanded current.
C6_SetVoltageUpdatesVoltage ==
    [][ op' = "setVoltage"
        => /\ Len(CurrWrites') = 0
           /\ latestCurrentVal' = latestCurrentVal
           /\ Len(VoltWrites') > 0
           /\ latestVoltageVal' = Last(VoltWrites') ]_vars

\* C7: enable() with no argument writes no parameter; its only access is one
\* hardware read of OUTP:STATE; it returns true exactly when the value read
\* is 'ON', 1 or '1'; the driver and the instrument are left as they were,
\* and a repeated call returns the same.
C7_EnableGetterOnlyReads ==
    [][ (op' = "enable" /\ arg' = "None")
        => /\ Len(io') = 1
           /\ io'[1].t = "getHW" /\ io'[1].k = "OUTP:STATE"
           /\ io'[1].v = OutpRep(outpState, outpFormat)
           /\ ret' = (io'[1].v \in {<<"str", "ON">>, <<"num", "1">>, <<"str", "1">>})
           /\ ret' = outpState
           /\ UNCHANGED <<latestCurrentVal, latestVoltageVal, currStep, voltStep,
                          outpState, outpFormat, sourceFunc, senseOn, routTerm,
                          protV, protC>>
           /\ (op = "enable" /\ arg = "None") => ret' = ret ]_vars

\* enable() returned true on an instrument that reads back the string '1',
\* called after another call.
C7_Witness ==
    /\ op = "enable" /\ arg = "None"
    /\ ret = TRUE
    /\ outpFormat = "str"
    /\ modeSwitched

\* C8: setPort with a port other than 'Front' and 'Rear' fails with an
\* InvalidArgument error and writes nothing; with 'Front' or 'Rear' it
\* writes FRON or REAR to ROUT:TERM.
C8_InvalidPortRaises ==
    op = "setPort"
    => /\ arg \notin {"Front", "Rear"} => (raised = "InvalidArgument" /\ NoWrites)
       /\ arg = "Front" => WritesTo("ROUT:TERM") = <<"FRON">>
       /\ arg = "Rear" => WritesTo("ROUT:TERM") = <<"REAR">>

\* C9: once setCurrentMode or setVoltageMode has been called, whatever calls
\* follow, the sense functions that are on are exactly the complement of the
\* one sourced: VOLT when SOURCE:FUNC is CURR, CURR when it is VOLT.
C9_SenseIsComplementOfSource ==
    modeSwitched
    => /\ sourceFunc \in {"CURR", "VOLT"}
       /\ sourceFunc = "CURR" => senseOn = {"VOLT"}
       /\ sourceFunc = "VOLT" => senseOn = {"CURR"}

\* A setpoint call made in voltage-source mode, after a mode switch, on an
\* instrument whose output is on.
C9_Witness ==
    /\ modeSwitched
    /\ op = "setCurrent"
    /\ outpState
    /\ sourceFunc = "VOLT"
    /\ senseOn = {"CURR"}

\* C10: setCurrentMode and setVoltageMode write OUTP:STATE 0 before they
\* write SOURCE:FUNC or any SENSE parameter, and never write OUTP:STATE 1:
\* the output is off when SOURCE:FUNC changes, and off when the call returns.
C10_ModeSwitchDisablesOutputFirst ==
    op \in {"setCurrentMode", "setVoltageMode"}
    => /\ \E off \in 1..Len(io) :
             /\ IsSet(off, "OUTP:STATE", 0)
             /\ \A i \in 1..Len(io) :
                   (io[i].t = "set" /\ io[i].k \in
                        {"SOURCE:FUNC", "SOURCE:CURR:MODE", "SOURCE:VOLT:MODE",
                         "SENSE:FUNCTION:OFF:ALL", "SENSE:FUNCTION:ON",
                         "SENSE:VOLT:RANGE:AUTO", "SENSE:CURR:RANGE:AUTO"})
                   => off < i
       /\ \E i \in 1..Len(io) : IsSetOf(i, "SOURCE:FUNC")
       /\ \A i \in 1..Len(io) : ~IsSet(i, "OUTP:STATE", 1)
       /\ ~outpState

\* A switch to current-source mode made while the output was on: the call's
\* first hardware read of OUTP:STATE returned an on value.
C10_Witness ==
    /\ op = "setCurrentMode"
    /\ \E i \in 1..Len(io) :
          /\ io[i].t = "getHW"
          /\ isOnValue(io[i].v)
    /\ sourceFunc = "CURR"

====
